---- MODULE Spec2Model ----
(***************************************************************************)
(* Model of the banking ledger: the Individual / Account / Transaction     *)
(* entities of banking_utils.py and the console handlers of app_utils.py.  *)
(*                                                                         *)
(* Two specifications share the entity operators:                          *)
(*   SpecAccount  one Account object driven directly by debit / credit     *)
(*                calls, as tests/test_banking_obj.py drives it;           *)
(*   Spec         the console application: start screen, signup, login,    *)
(*                the customer command loop, and the session / database.   *)
(***************************************************************************)
EXTENDS Integers, Sequences, FiniteSets, TLC

(* ------------------------------ bounds --------------------------------- *)
\* largest small starting balance given to a factory
MaxStart == 2
\* largest small amount of a debit / credit / deposit / withdraw
MaxAmt == 2
\* amounts go down to -MaxNeg
MaxNeg == 1
\* number of debit / credit calls made on the Account object in SpecAccount
MaxOps == 3
\* amounts typed at the customer prompt run from -MaxTyped to MaxTyped
MaxTyped == 1
\* number of uuid4() values handed out in one run of Spec
MaxUuid == 6

VARIABLES
    \* --- SpecAccount: one Account object and its driver ---
    acct,       \* the Account object, or None before construction
    start,      \* the starting balance the object was constructed with
    call,       \* the last call made: [op, amt]
    exc,        \* the exception the last call raised, or NoExc
    ret,        \* the value the last call returned (a Transaction), or None
    hist,       \* the debit / credit calls made so far and what each
                \* returned, in order
    allok,      \* whether every debit / credit call so far returned normally
    \* --- Spec: the console application ---
    individuals,    \* committed rows of table `individuals`
    accounts,       \* committed rows of table `accounts`
    transactions,   \* committed rows of table `transactions`
    session_new,    \* objects session.add()-ed and not yet committed
    context,        \* the session context: key -> in-memory object
    screen,         \* where the process is: start screen, customer loop, ended
    uuid_ctr,       \* number of uuid4() values handed out
    clock,          \* datetime.now(), in ticks
    last            \* what the last command did: [cmd, out, ...]

acct_vars == <<acct, start, call, exc, ret, hist, allok>>
app_vars == <<individuals, accounts, transactions, session_new, context,
              screen, uuid_ctr, clock, last>>
vars == <<acct, start, call, exc, ret, hist, allok,
          individuals, accounts, transactions, session_new, context,
          screen, uuid_ctr, clock, last>>

(* ------------------------------ values --------------------------------- *)
None == [class |-> "NoneType"]
NoExc == "no exception"

\* uuid4(): the n-th value handed out; distinct n give distinct identifiers
uuid4(n) == <<"uuid", n>>

\* hashlib.sha256(pwd).hexdigest(): a one-way digest, never the clear text
sha256(pwd) == <<"sha256", pwd>>

(* --------------------------- Transaction -------------------------------- *)
\* Transaction.__init__ with transaction_id and transaction_timestamp left
\* to their defaults: uuid4() and datetime.now()
Transaction(account_id, transaction_type, amount, tid, now) ==
    [class |-> "Transaction",
     transaction_id |-> tid,
     account_id |-> account_id,
     transaction_type |-> transaction_type,
     amount |-> amount,
     transaction_timestamp |-> now]

(* ------------------------------ Account --------------------------------- *)
\* the result of a call on an object: the exception raised (or NoExc), the
\* object after the call, and the value returned
Result(e, o, r) == [exc |-> e, obj |-> o, ret |-> r]

\* variant of the setter: the new balance is not tested
balance_setter_unchecked(a, new_balance) ==
    Result(NoExc, [a EXCEPT !.balance = new_balance], None)

\* variant of the setter: the balance is assigned before it is tested
balance_setter_assign_first(a, new_balance) ==
    IF new_balance < 0
    THEN Result("ValueError: Negative balance",
                [a EXCEPT !.balance = new_balance], None)
    ELSE Result(NoExc, [a EXCEPT !.balance = new_balance], None)

\* Account.balance setter
balance_setter(a, new_balance) ==
    IF new_balance < 0
    THEN Result("ValueError: Negative balance", a, None)
    ELSE Result(NoExc, [a EXCEPT !.balance = new_balance], None)

\* Account.__init__: the setters run in order and the first failing one
\* aborts construction (interest rates are kept in thousandths)
Account(indvdl_id, account_type, balance, liability_fg, interest_rate, aid) ==
    IF account_type \notin {"Checking", "Savings", "Credit Card"}
    THEN Result("ValueError: Accounts can only be Checking, Savings, or Credit Card",
                None, None)
    ELSE IF balance < 0
    THEN Result("ValueError: Negative balance", None, None)
    ELSE IF liability_fg \notin {0, 1}
    THEN Result("ValueError: Liability must be 0 or 1", None, None)
    ELSE IF interest_rate < 0
    THEN Result("ValueError: Interest Rate should be >= 0", None, None)
    ELSE Result(NoExc,
                [class |-> "Account",
                 account_id |-> aid,
                 indvdl_id |-> indvdl_id,
                 account_type |-> account_type,
                 balance |-> balance,
                 liability_fg |-> liability_fg,
                 interest_rate |-> interest_rate],
                None)

make_checking_account(indvdl_id, starting_balance, aid) ==
    Account(indvdl_id, "Checking", starting_balance, 0, 0, aid)

make_savings_account(indvdl_id, starting_balance, aid) ==
    Account(indvdl_id, "Savings", starting_balance, 0, 50, aid)

make_credit_card_account(indvdl_id, starting_balance, aid) ==
    Account(indvdl_id, "Credit Card", starting_balance, 1, 25, aid)

\* variant of debit: the amount is added whatever the polarity
debit_same_sign(a, amt, tid, now) ==
    IF amt < 0
    THEN Result("ValueError: Cash flows must be positive", a, None)
    ELSE LET s == balance_setter(a, a.balance + amt)
         IN  IF s.exc # NoExc
             THEN Result(s.exc, s.obj, None)
             ELSE Result(NoExc, s.obj,
                         Transaction(a.account_id, "DEBIT", amt, tid, now))

\* variant of debit: the Transaction is tagged CREDIT
debit_wrong_kind(a, amt, tid, now) ==
    IF amt < 0
    THEN Result("ValueError: Cash flows must be positive", a, None)
    ELSE LET s == balance_setter(a, a.balance + (1 - 2 * a.liability_fg) * amt)
         IN  IF s.exc # NoExc
             THEN Result(s.exc, s.obj, None)
             ELSE Result(NoExc, s.obj,
                         Transaction(a.account_id, "CREDIT", amt, tid, now))

\* variant of debit: the call also turns the polarity flag over
debit_flips_polarity(a, amt, tid, now) ==
    IF amt < 0
    THEN Result("ValueError: Cash flows must be positive", a, None)
    ELSE LET s == balance_setter(a, a.balance + (1 - 2 * a.liability_fg) * amt)
         IN  IF s.exc # NoExc
             THEN Result(s.exc, s.obj, None)
             ELSE Result(NoExc,
                         [s.obj EXCEPT !.liability_fg = 1 - a.liability_fg],
                         Transaction(a.account_id, "DEBIT", amt, tid, now))

\* Account.debit
debit(a, amt, tid, now) ==
    IF amt < 0
    THEN Result("ValueError: Cash flows must be positive", a, None)
    ELSE LET s == balance_setter(a, a.balance + (1 - 2 * a.liability_fg) * amt)
         IN  IF s.exc # NoExc
             THEN Result(s.exc, s.obj, None)
             ELSE Result(NoExc, s.obj,
                         Transaction(a.account_id, "DEBIT", amt, tid, now))

\* variant of credit: the amount is not tested
credit_no_amount_check(a, amt, tid, now) ==
    LET s == balance_setter(a, a.balance - (1 - 2 * a.liability_fg) * amt)
    IN  IF s.exc # NoExc
        THEN Result(s.exc, s.obj, None)
        ELSE Result(NoExc, s.obj,
                    Transaction(a.account_id, "CREDIT", amt, tid, now))

\* variant of credit: an amount of 0 is refused as well
credit_rejects_zero(a, amt, tid, now) ==
    IF amt <= 0
    THEN Result("ValueError: Cash flows must be positive", a, None)
    ELSE LET s == balance_setter(a, a.balance - (1 - 2 * a.liability_fg) * amt)
         IN  IF s.exc # NoExc
             THEN Result(s.exc, s.obj, None)
             ELSE Result(NoExc, s.obj,
                         Transaction(a.account_id, "CREDIT", amt, tid, now))

\* Account.credit
credit(a, amt, tid, now) ==
    IF amt < 0
    THEN Result("ValueError: Cash flows must be positive", a, None)
    ELSE LET s == balance_setter(a, a.balance - (1 - 2 * a.liability_fg) * amt)
         IN  IF s.exc # NoExc
             THEN Result(s.exc, s.obj, None)
             ELSE Result(NoExc, s.obj,
                         Transaction(a.account_id, "CREDIT", amt, tid, now))

(* ----------------- SpecAccount: the Account object alone ---------------- *)
\* the amounts and starting balances tried: small ones of either sign, and
\* the 100 and 50 of test_accounts
Amounts == ((0 - MaxNeg)..MaxAmt) \cup {50, 100}
StartingBalances == ((0 - MaxNeg)..MaxStart) \cup {100}

NoCall == [op |-> "none", amt |-> 0]

AcctInit ==
    /\ acct = None
    /\ start = 0
    /\ call = NoCall
    /\ exc = NoExc
    /\ ret = None
    /\ hist = <<>>
    /\ allok = TRUE

AppIdle == UNCHANGED app_vars

\* test_accounts line 13: one of the three factories builds the object
MakeAccount ==
    /\ acct = None
    /\ \E f \in {"make_checking_account", "make_savings_account",
                 "make_credit_card_account"}, sb \in StartingBalances :
         LET r == CASE f = "make_checking_account" ->
                          make_checking_account("test", sb, uuid4(0))
                    [] f = "make_savings_account" ->
                          make_savings_account("test", sb, uuid4(0))
                    [] OTHER ->
                          make_credit_card_account("test", sb, uuid4(0))
         IN  /\ acct' = r.obj
             /\ start' = sb
             /\ call' = [op |-> f, amt |-> sb]
             /\ exc' = r.exc
             /\ ret' = None
    /\ UNCHANGED <<hist, allok>>
    /\ AppIdle

\* test_accounts line 14: test_account.debit(amt)
DoDebit ==
    /\ acct # None
    /\ Len(hist) < MaxOps
    /\ \E amt \in Amounts :
         LET r == debit(acct, amt, uuid4(Len(hist) + 1), Len(hist) + 1)
         IN  /\ acct' = r.obj
             /\ call' = [op |-> "debit", amt |-> amt]
             /\ exc' = r.exc
             /\ ret' = r.ret
             /\ hist' = Append(hist, [op |-> "debit", amt |-> amt,
                                       ret |-> r.ret])
             /\ allok' = (allok /\ r.exc = NoExc)
    /\ UNCHANGED start
    /\ AppIdle

\* test_accounts line 15: test_account.credit(amt)
DoCredit ==
    /\ acct # None
    /\ Len(hist) < MaxOps
    /\ \E amt \in Amounts :
         LET r == credit(acct, amt, uuid4(Len(hist) + 1), Len(hist) + 1)
         IN  /\ acct' = r.obj
             /\ call' = [op |-> "credit", amt |-> amt]
             /\ exc' = r.exc
             /\ ret' = r.ret
             /\ hist' = Append(hist, [op |-> "credit", amt |-> amt,
                                       ret |-> r.ret])
             /\ allok' = (allok /\ r.exc = NoExc)
    /\ UNCHANGED start
    /\ AppIdle

(* ----------------------------- Individual ------------------------------- *)
\* variant of the setter: the limit is 17
age_num_setter_17(ind, new_age) ==
    IF new_age < 17
    THEN Result("ValueError: Must be 18 or older to have an account", ind, None)
    ELSE Result(NoExc, [ind EXCEPT !.age_num = new_age], None)

\* Individual.age_num setter
age_num_setter(ind, new_age) ==
    IF new_age < 18
    THEN Result("ValueError: Must be 18 or older to have an account", ind, None)
    ELSE Result(NoExc, [ind EXCEPT !.age_num = new_age], None)

\* Individual.__init__ with indvdl_id left to its default, uuid4(): the
\* password is stored hashed; a failing age aborts construction
Individual(user_name, password, first_name, last_name, age_num, address, iid) ==
    LET blank == [class |-> "Individual",
                  indvdl_id |-> iid,
                  user_name |-> user_name,
                  password |-> sha256(password),
                  first_name |-> first_name,
                  last_name |-> last_name,
                  age_num |-> 0,
                  address |-> ""]
        s == age_num_setter(blank, age_num)
    IN  IF s.exc # NoExc
        THEN Result(s.exc, None, None)
        ELSE Result(NoExc, [s.obj EXCEPT !.address = address], None)

\* Individual.make_basic_accounts: checking, savings, credit card, each 0
make_basic_accounts(ind, n) ==
    <<make_checking_account(ind.indvdl_id, 0, uuid4(n + 1)).obj,
      make_savings_account(ind.indvdl_id, 0, uuid4(n + 2)).obj,
      make_credit_card_account(ind.indvdl_id, 0, uuid4(n + 3)).obj>>

(* ------------------------- session and database ------------------------- *)
\* The session is the persistence collaborator's unit of work: objects
\* handed to session.add() wait in session_new, attribute changes of loaded
\* objects wait in the objects, and session.commit() writes both, or raises
\* and writes nothing.  No handler of app_utils.py calls rollback() or
\* refreshes an object, so after a commit that raised the session holds
\* what the handler left in it.
NoNew == [individuals |-> {}, accounts |-> {}, transactions |-> {}]

session_add(new, o) ==
    CASE o.class = "Individual" ->
            [new EXCEPT !.individuals = @ \cup {o}]
      [] o.class = "Account" ->
            [new EXCEPT !.accounts = @ \cup {o}]
      [] OTHER ->
            [new EXCEPT !.transactions = @ \cup {o}]

\* the objects a context holds that are Accounts
LoadedAccounts(ctx) ==
    IF ctx = None THEN {}
    ELSE {ctx[k] : k \in (DOMAIN ctx) \ {"user"}}

\* the database refuses a commit that breaks a key: the primary keys, and
\* the unique login name of table individuals
commit_allowed(db, new) ==
    /\ \A i \in new.individuals : \A j \in db.individuals \cup new.individuals :
          (i.user_name = j.user_name \/ i.indvdl_id = j.indvdl_id) => i = j
    /\ \A x \in new.accounts : \A y \in db.accounts \cup new.accounts :
          x.account_id = y.account_id => x = y
    /\ \A t \in new.transactions : \A u \in db.transactions \cup new.transactions :
          t.transaction_id = u.transaction_id => t = u

\* rows of loaded accounts take the objects' values; new accounts are added
commit_accounts(rows, new, ctx) ==
    {IF \E o \in LoadedAccounts(ctx) : o.account_id = row.account_id
     THEN CHOOSE o \in LoadedAccounts(ctx) : o.account_id = row.account_id
     ELSE row : row \in rows} \cup new.accounts

\* variant: the table is replaced by the new rows
commit_transactions_overwrite(rows, new) == new.transactions

\* new transactions are inserted; no handler updates or deletes a row
commit_transactions(rows, new) == rows \cup new.transactions

\* session.commit() that returns: the database after it
commit(db, new, ctx) ==
    [individuals |-> db.individuals \cup new.individuals,
     accounts |-> commit_accounts(db.accounts, new, ctx),
     transactions |-> commit_transactions(db.transactions, new)]

\* the database as the three tables
Db == [individuals |-> individuals, accounts |-> accounts,
       transactions |-> transactions]

(* ----------------------------- inputs ----------------------------------- *)
\* login names typed at login, and the one chosen at signup
UserNames == {"ann", "bob"}
NewUserNames == {"ann"}
\* passwords typed at login, and the one chosen at signup
Passwords == {"pw", "bad"}
NewPasswords == {"pw"}
\* what is typed at the `Age: ` prompt
AgeInputs == {"17", "18", "x"}
\* the amount argument of deposit / withdraw
AmountInputs == {ToString(n) : n \in (0 - MaxTyped)..MaxTyped} \cup {"abc"}
\* the account argument of deposit / withdraw: an asset account, the
\* liability account, a key of the context that is no account, no key
AccountInputs == {"checking", "creditcard", "user", "bogus"}
\* line.split() of what follows the command word
Lines == {<<>>} \cup {<<a>> : a \in AmountInputs}
           \cup {<<a, k>> : a \in AmountInputs, k \in AccountInputs}

\* int(text): the integer a decimal literal denotes, else ValueError
\* (the literals the model reads: the amounts around the ones typed, and
\* the ages around the limit)
IntRange == ((0 - (MaxTyped + 1))..(MaxTyped + 1)) \cup (16..19)
IntLiterals == {ToString(n) : n \in IntRange}
IntOf == [t \in IntLiterals |-> CHOOSE n \in IntRange : ToString(n) = t]
int(text) ==
    IF text \in IntLiterals
    THEN Result(NoExc, None, IntOf[text])
    ELSE Result("ValueError: invalid literal for int()", None, 0)

\* account_type.lower().replace(' ', '')
context_key(account_type) ==
    CASE account_type = "Checking" -> "checking"
      [] account_type = "Savings" -> "savings"
      [] account_type = "Credit Card" -> "creditcard"
      [] OTHER -> account_type

\* CredentialHandler._get_context
get_context(db, indvdl_obj, indvdl_id_num) ==
    LET rows == {a \in db.accounts : a.indvdl_id = indvdl_id_num}
        keys == {context_key(a.account_type) : a \in rows}
    IN  [k \in keys \cup {"user"} |->
            IF k = "user" THEN indvdl_obj
            ELSE CHOOSE a \in rows : context_key(a.account_type) = k]

NoLast == [cmd |-> "none", out |-> NoExc]

AppInit ==
    /\ individuals = {}
    /\ accounts = {}
    /\ transactions = {}
    /\ session_new = NoNew
    /\ context = None
    /\ screen = "start"
    /\ uuid_ctr = 0
    /\ clock = 0
    /\ last = NoLast

AcctIdle == UNCHANGED acct_vars

(* ------------------ CredentialHandler.start_screen ---------------------- *)
\* (option '3', employee_login, queries a class Employee that banking_utils
\* does not define; the employee side is left out)
\* option '1', customer_login: the login name and the hashed password are
\* looked up; a match builds the context and opens the customer loop
customer_login ==
    /\ screen = "start"
    /\ \E username \in UserNames, password \in Passwords :
         LET results == {i \in individuals :
                            /\ i.user_name = username
                            /\ i.password = sha256(password)}
         IN  IF results = {}
             THEN /\ last' = [cmd |-> "customer_login",
                              out |-> "User not found/invalid credentials",
                              user_name |-> username]
                  /\ UNCHANGED <<context, screen>>
             ELSE LET r0 == CHOOSE i \in results : TRUE
                  IN  /\ context' = get_context(Db, r0, r0.indvdl_id)
                      /\ screen' = "customer"
                      /\ last' = [cmd |-> "customer_login", out |-> NoExc,
                                  user_name |-> username]
    /\ UNCHANGED <<individuals, accounts, transactions, session_new,
                   uuid_ctr, clock>>
    /\ AcctIdle

\* option '2', new_user: the Individual is added and committed, then its
\* three accounts are added and committed; any exception is caught and
\* printed, and the start screen asks again (new_user returns None)
new_user ==
    /\ screen = "start"
    /\ \E username \in NewUserNames, password \in NewPasswords,
          age_text \in AgeInputs :
         LET age == int(age_text)
             ind == Individual(username, password, "first", "last",
                               age.ret, "address", uuid4(uuid_ctr + 1))
             new1 == session_add(session_new, ind.obj)
             db1 == commit(Db, new1, context)
             basic == make_basic_accounts(ind.obj, uuid_ctr + 1)
             new2 == session_add(session_add(session_add(NoNew,
                         basic[1]), basic[2]), basic[3])
             db2 == commit(db1, new2, context)
             report(e) == [cmd |-> "new_user", out |-> e,
                           user_name |-> username, age |-> age_text]
         IN  IF age.exc # NoExc
             THEN /\ last' = report(age.exc)
                  /\ UNCHANGED <<individuals, accounts, transactions,
                                 session_new, uuid_ctr>>
             ELSE IF ind.exc # NoExc
             THEN /\ last' = report(ind.exc)
                  /\ UNCHANGED <<individuals, accounts, transactions,
                                 session_new, uuid_ctr>>
             ELSE \E c1 \in BOOLEAN, c2 \in BOOLEAN :
                  /\ uuid_ctr + 4 <= MaxUuid
                  /\ IF ~(c1 /\ commit_allowed(Db, new1))
                     THEN /\ last' = report("commit of the Individual raised")
                          /\ session_new' = new1
                          /\ uuid_ctr' = uuid_ctr + 1
                          /\ UNCHANGED <<individuals, accounts, transactions>>
                     ELSE IF ~(c2 /\ commit_allowed(db1, new2))
                     THEN /\ last' = report("commit of the accounts raised")
                          /\ individuals' = db1.individuals
                          /\ accounts' = db1.accounts
                          /\ transactions' = db1.transactions
                          /\ session_new' = new2
                          /\ uuid_ctr' = uuid_ctr + 4
                     ELSE /\ last' = report(NoExc)
                          /\ individuals' = db2.individuals
                          /\ accounts' = db2.accounts
                          /\ transactions' = db2.transactions
                          /\ session_new' = NoNew
                          /\ uuid_ctr' = uuid_ctr + 4
    /\ UNCHANGED <<context, screen, clock>>
    /\ AcctIdle

\* option '4': exit()
start_exit ==
    /\ screen = "start"
    /\ screen' = "ended"
    /\ last' = [cmd |-> "exit", out |-> NoExc]
    /\ UNCHANGED <<individuals, accounts, transactions, session_new, context,
                   uuid_ctr, clock>>
    /\ AcctIdle

\* any other option: 'Please enter a valid option.'
start_invalid ==
    /\ screen = "start"
    /\ last' = [cmd |-> "start_screen", out |-> "Please enter a valid option."]
    /\ UNCHANGED <<individuals, accounts, transactions, session_new, context,
                   screen, uuid_ctr, clock>>
    /\ AcctIdle

(* ----------------------------- CustomerCLI ------------------------------ *)
AccountKeys == {"checking", "savings", "creditcard"}

\* do_statement: the three balances are read from the context; a missing
\* key raises KeyError, which no handler of the loop catches, so the
\* process ends in banking_app's except / finally
do_statement ==
    /\ screen = "customer"
    /\ IF AccountKeys \subseteq DOMAIN context
       THEN /\ last' = [cmd |-> "statement", out |-> NoExc,
                        checking |-> context["checking"].balance,
                        savings |-> context["savings"].balance,
                        creditcard |-> context["creditcard"].balance]
            /\ screen' = screen
       ELSE /\ last' = [cmd |-> "statement", out |-> "KeyError"]
            /\ screen' = "ended"
    /\ UNCHANGED <<individuals, accounts, transactions, session_new, context,
                   uuid_ctr, clock>>
    /\ AcctIdle

\* what a deposit / withdraw command reports: the outcome, the account key
\* and its balance before the command, the amount, the Transaction made
Report(cmd, e, key, before, amount, txn) ==
    [cmd |-> cmd, out |-> e, account |-> key, before |-> before,
     amount |-> amount, transaction |-> txn]

\* do_deposit: deposit <amount> <account>
do_deposit ==
    /\ screen = "customer"
    /\ \E args \in Lines :
         LET amount == int(args[1])
             account == args[2]
             r == debit(context[account], amount.ret,
                        uuid4(uuid_ctr + 1), clock + 1)
             ctx1 == [context EXCEPT ![account] = r.obj]
             new1 == session_add(session_new, r.ret)
             db1 == commit(Db, new1, ctx1)
             fails(e) == /\ last' = Report("deposit", e, "", 0, 0, None)
                         /\ UNCHANGED <<individuals, accounts, transactions,
                                        session_new, context, uuid_ctr, clock>>
         IN  IF Len(args) < 1
             THEN fails("IndexError: list index out of range")
             ELSE IF amount.exc # NoExc
             THEN fails(amount.exc)
             ELSE IF Len(args) < 2
             THEN fails("IndexError: list index out of range")
             ELSE IF account \notin DOMAIN context
             THEN fails("KeyError")
             ELSE IF context[account].class # "Account"
             THEN fails("AttributeError: object has no attribute debit")
             ELSE IF r.exc # NoExc
             THEN /\ last' = Report("deposit", r.exc, account,
                                    context[account].balance, amount.ret, None)
                  /\ context' = ctx1
                  /\ UNCHANGED <<individuals, accounts, transactions,
                                 session_new, uuid_ctr, clock>>
             ELSE \E c \in BOOLEAN :
                  /\ uuid_ctr + 1 <= MaxUuid
                  /\ IF ~(c /\ commit_allowed(Db, new1))
                     THEN /\ last' = Report("deposit", "commit raised", account,
                                            context[account].balance, amount.ret, r.ret)
                          /\ context' = ctx1
                          /\ session_new' = new1
                          /\ uuid_ctr' = uuid_ctr + 1
                          /\ clock' = clock + 1
                          /\ UNCHANGED <<individuals, accounts, transactions>>
                     ELSE /\ last' = Report("deposit", NoExc, account,
                                            context[account].balance, amount.ret, r.ret)
                          /\ context' = ctx1
                          /\ individuals' = db1.individuals
                          /\ accounts' = db1.accounts
                          /\ transactions' = db1.transactions
                          /\ session_new' = NoNew
                          /\ uuid_ctr' = uuid_ctr + 1
                          /\ clock' = clock + 1
    /\ UNCHANGED screen
    /\ AcctIdle

\* do_withdraw: withdraw <amount> <account>
do_withdraw ==
    /\ screen = "customer"
    /\ \E args \in Lines :
         LET amount == int(args[1])
             account == args[2]
             r == credit(context[account], amount.ret,
                         uuid4(uuid_ctr + 1), clock + 1)
             ctx1 == [context EXCEPT ![account] = r.obj]
             new1 == session_add(session_new, r.ret)
             db1 == commit(Db, new1, ctx1)
             fails(e) == /\ last' = Report("withdraw", e, "", 0, 0, None)
                         /\ UNCHANGED <<individuals, accounts, transactions,
                                        session_new, context, uuid_ctr, clock>>
         IN  IF Len(args) < 1
             THEN fails("IndexError: list index out of range")
             ELSE IF amount.exc # NoExc
             THEN fails(amount.exc)
             ELSE IF Len(args) < 2
             THEN fails("IndexError: list index out of range")
             ELSE IF account \notin DOMAIN context
             THEN fails("KeyError")
             ELSE IF context[account].class # "Account"
             THEN fails("AttributeError: object has no attribute credit")
             ELSE IF r.exc # NoExc
             THEN /\ last' = Report("withdraw", r.exc, account,
                                    context[account].balance, amount.ret, None)
                  /\ context' = ctx1
                  /\ UNCHANGED <<individuals, accounts, transactions,
                                 session_new, uuid_ctr, clock>>
             ELSE \E c \in BOOLEAN :
                  /\ uuid_ctr + 1 <= MaxUuid
                  /\ IF ~(c /\ commit_allowed(Db, new1))
                     THEN /\ last' = Report("withdraw", "commit raised", account,
                                            context[account].balance, amount.ret, r.ret)
                          /\ context' = ctx1
                          /\ session_new' = new1
                          /\ uuid_ctr' = uuid_ctr + 1
                          /\ clock' = clock + 1
                          /\ UNCHANGED <<individuals, accounts, transactions>>
                     ELSE /\ last' = Report("withdraw", NoExc, account,
                                            context[account].balance, amount.ret, r.ret)
                          /\ context' = ctx1
                          /\ individuals' = db1.individuals
                          /\ accounts' = db1.accounts
                          /\ transactions' = db1.transactions
                          /\ session_new' = NoNew
                          /\ uuid_ctr' = uuid_ctr + 1
                          /\ clock' = clock + 1
    /\ UNCHANGED screen
    /\ AcctIdle

\* a line whose first word names no do_ method: cmd.Cmd.default prints
\* '*** Unknown syntax' and the loop asks again (the help command and the
\* repeat of the last command on an empty line are left out)
default ==
    /\ screen = "customer"
    /\ last' = [cmd |-> "default", out |-> "*** Unknown syntax"]
    /\ UNCHANGED <<individuals, accounts, transactions, session_new, context,
                   screen, uuid_ctr, clock>>
    /\ AcctIdle

\* do_quit: returns True, which ends cmdloop and with it the process
do_quit ==
    /\ screen = "customer"
    /\ screen' = "ended"
    /\ last' = [cmd |-> "quit", out |-> NoExc]
    /\ UNCHANGED <<individuals, accounts, transactions, session_new, context,
                   uuid_ctr, clock>>
    /\ AcctIdle

\* banking_app.py run again: a new session and handler over the same
\* database; what the old session held in memory is gone
banking_app ==
    /\ screen = "ended"
    /\ screen' = "start"
    /\ context' = None
    /\ session_new' = NoNew
    /\ last' = NoLast
    /\ UNCHANGED <<individuals, accounts, transactions, uuid_ctr, clock>>
    /\ AcctIdle

(* --------------------------- specifications ----------------------------- *)
Init == AcctInit /\ AppInit

Next ==
    \/ customer_login
    \/ new_user
    \/ start_exit
    \/ start_invalid
    \/ do_statement
    \/ do_deposit
    \/ do_withdraw
    \/ default
    \/ do_quit
    \/ banking_app

Spec == Init /\ [][Next]_vars

NextAccount ==
    \/ MakeAccount
    \/ DoDebit
    \/ DoCredit

SpecAccount == Init /\ [][NextAccount]_vars

(* -------------- SpecTransaction: Transaction objects alone -------------- *)
\* the kinds a caller may pass as transaction_type
TransactionTypes == {"DEBIT", "CREDIT"}

\* Transaction(account_id=..., transaction_type=..., amount=...) called
\* directly: __init__ stores every argument as given and raises nothing
NewTransaction ==
    /\ Len(hist) < MaxOps
    /\ \E kind \in TransactionTypes, amt \in Amounts :
         LET t == Transaction("test", kind, amt,
                              uuid4(Len(hist) + 1), Len(hist) + 1)
         IN  /\ call' = [op |-> "Transaction", amt |-> amt]
             /\ exc' = NoExc
             /\ ret' = t
             /\ hist' = Append(hist, [op |-> "Transaction", amt |-> amt,
                                      ret |-> t])
    /\ UNCHANGED <<acct, start, allok>>
    /\ AppIdle

NextTransaction == NewTransaction

SpecTransaction == Init /\ [][NextTransaction]_vars

(* ======================= the Account object ============================= *)
IsLedgerCall(c) == c.op \in {"debit", "credit"}

\* C1: whatever debit and credit calls are made on an Account built with a
\* non-negative starting balance, its balance is never negative.
C1_BalanceNeverNegative ==
    acct # None => acct.balance >= 0

\* a rejected call has happened, after an accepted one, on a built account
C1_Witness ==
    /\ acct # None
    /\ IsLedgerCall(call)
    /\ exc = "ValueError: Negative balance"
    /\ Len(hist) >= 2
    /\ hist[Len(hist) - 1].ret # None

\* the signed delta the ledger rules give one call: on an asset account
\* debit adds and credit subtracts, on a liability account the reverse
LedgerDelta(liability_fg, op, amt) ==
    CASE liability_fg = 0 /\ op = "debit" -> amt
      [] liability_fg = 0 /\ op = "credit" -> 0 - amt
      [] liability_fg = 1 /\ op = "debit" -> 0 - amt
      [] liability_fg = 1 /\ op = "credit" -> amt

RECURSIVE SumDeltas(_, _)
SumDeltas(liability_fg, calls) ==
    IF calls = <<>> THEN 0
    ELSE LedgerDelta(liability_fg, Head(calls).op, Head(calls).amt)
            + SumDeltas(liability_fg, Tail(calls))

\* C2: when every call so far was accepted, the balance is the starting
\* balance plus the sum of the calls' signed deltas.
C2_BalanceIsStartPlusDeltas ==
    (acct # None /\ allok) =>
        acct.balance = start + SumDeltas(acct.liability_fg, hist)

\* the scenario of test_accounts: Checking at 100, debit 100, credit 50
C2_Witness ==
    /\ acct # None
    /\ acct.account_type = "Checking"
    /\ start = 100
    /\ Len(hist) = 2
    /\ hist[1].op = "debit" /\ hist[1].amt = 100
    /\ hist[2].op = "credit" /\ hist[2].amt = 50
    /\ allok
    /\ acct.balance = 150

\* a call whose result would be negative: a credit of more than the balance
\* on an asset account, a debit of more than the balance on a liability one
Overdraws(a, c) ==
    \/ c.op = "credit" /\ a.liability_fg = 0 /\ c.amt > a.balance
    \/ c.op = "debit" /\ a.liability_fg = 1 /\ c.amt > a.balance

\* C3: a debit or credit that would make the balance negative raises the
\* setter's validation error and leaves the balance as it was.
C3_OverdrawRejectedBalanceKept ==
    [][(acct # None /\ IsLedgerCall(call') /\ Overdraws(acct, call')) =>
          /\ exc' = "ValueError: Negative balance"
          /\ acct'.balance = acct.balance]_vars

\* a credit of more than the balance was made on an asset account that had
\* money in it
C3_Witness ==
    /\ acct # None
    /\ call.op = "credit"
    /\ acct.liability_fg = 0
    /\ acct.balance > 0
    /\ call.amt > acct.balance
    /\ exc = "ValueError: Negative balance"

\* C4: a debit or credit of a negative amount, on either polarity, raises
\* the amount's validation error, changes nothing and returns nothing.
C4_NegativeAmountRejected ==
    [][(acct # None /\ IsLedgerCall(call') /\ call'.amt < 0) =>
          /\ exc' = "ValueError: Cash flows must be positive"
          /\ acct' = acct
          /\ ret' = None]_vars

\* a negative credit was made on a liability account
C4_Witness ==
    /\ acct # None
    /\ call.op = "credit"
    /\ call.amt < 0
    /\ acct.liability_fg = 1
    /\ exc = "ValueError: Cash flows must be positive"

\* C5: an accepted debit / credit returns one Transaction, with an
\* identifier no earlier Transaction has, carrying the account's
\* identifier, the amount, and DEBIT for debit, CREDIT for credit; a
\* rejected one returns nothing.
C5_TransactionReturned ==
    (acct # None /\ IsLedgerCall(call)) =>
        IF exc = NoExc
        THEN /\ ret.class = "Transaction"
             /\ ret.account_id = acct.account_id
             /\ ret.amount = call.amt
             /\ ret.transaction_type =
                    (IF call.op = "debit" THEN "DEBIT" ELSE "CREDIT")
             /\ ret = hist[Len(hist)].ret
             /\ \A i \in 1..(Len(hist) - 1) :
                    hist[i].ret # None =>
                        hist[i].ret.transaction_id # ret.transaction_id
        ELSE ret = None

\* a debit was accepted after an earlier accepted call
C5_Witness ==
    /\ acct # None
    /\ call.op = "debit"
    /\ call.amt > 0
    /\ exc = NoExc
    /\ ret.transaction_type = "DEBIT"
    /\ Len(hist) >= 2
    /\ hist[Len(hist) - 1].ret # None

(* ========================= the application ============================== *)
IsLedgerCommand(l) == l.cmd \in {"deposit", "withdraw"}

\* the Account rows an Individual owns of one kind
OwnedOfKind(rows, i, kind) ==
    {a \in rows : a.indvdl_id = i.indvdl_id /\ a.account_type = kind}

\* C6: after a deposit or withdraw command that reached the account, the
\* balance the session shows has moved by the command's delta when the
\* command's Transaction is in the persisted log, and is what it was before
\* the command when the Transaction is not in the log.
C6_LedgerCommandAllOrNothing ==
    (screen = "customer" /\ IsLedgerCommand(last) /\ last.account \in AccountKeys) =>
        LET a == context[last.account]
            delta == LedgerDelta(a.liability_fg,
                                 IF last.cmd = "deposit" THEN "debit" ELSE "credit",
                                 last.amount)
        IN  IF last.transaction \in transactions
            THEN a.balance = last.before + delta
            ELSE a.balance = last.before

\* C7: every persisted Individual owns exactly one Checking, one Savings
\* and one Credit Card account.
C7_EveryIndividualHasBasicAccounts ==
    \A i \in individuals :
        \A kind \in {"Checking", "Savings", "Credit Card"} :
            Cardinality(OwnedOfKind(accounts, i, kind)) = 1

\* the age typed is an integer below 18
Underage(l) ==
    /\ l.cmd = "new_user"
    /\ int(l.age).exc = NoExc
    /\ int(l.age).ret < 18

\* C8: a signup with an age below 18 raises the age's validation error and
\* leaves the persisted individuals and accounts as they were.
C8_UnderageSignupPersistsNothing ==
    [][Underage(last') =>
          /\ last'.out = "ValueError: Must be 18 or older to have an account"
          /\ individuals' = individuals
          /\ accounts' = accounts]_vars

\* an underage signup was refused while the database already held an
\* Individual and the accounts of one
C8_Witness ==
    /\ Underage(last)
    /\ last.out = "ValueError: Must be 18 or older to have an account"
    /\ individuals # {}
    /\ accounts # {}

\* C9: a login of an Individual who lacks one of the three accounts ends in
\* a configuration error, with no context and no customer loop (stated for
\* a process whose session holds nothing uncommitted).
C9_ContextRequiresAllAccounts ==
    (/\ last.cmd = "customer_login"
     /\ session_new = NoNew
     /\ last.out # "User not found/invalid credentials"
     /\ \E i \in individuals :
           /\ i.user_name = last.user_name
           /\ \E kind \in {"Checking", "Savings", "Credit Card"} :
                 OwnedOfKind(accounts, i, kind) = {}) =>
        /\ last.out = "ConfigurationError"
        /\ screen = "start"
        /\ context = None

\* C10: every step keeps each persisted Transaction, with all its fields,
\* in the log.
C10_TransactionLogAppendOnly ==
    [][transactions \subseteq transactions']_vars

\* the log holds two Transactions, made by two commands
C10_Witness ==
    \E t \in transactions : \E u \in transactions :
        t.transaction_timestamp < u.transaction_timestamp

(* ====================== the Transaction object ========================== *)
\* C11: constructing a Transaction with a negative amount raises a
\* validation error and yields no Transaction.
C11_NegativeTransactionRejected ==
    (call.op = "Transaction" /\ call.amt < 0) =>
        /\ exc # NoExc
        /\ ret = None

(* ======================= the customer loop ============================== *)
\* the commands of the customer loop other than quit
LoopCommands == {"statement", "deposit", "withdraw", "default"}

\* C12: whatever is typed in the customer loop other than quit, valid or
\* not, the loop is still there for the next command afterwards (stated
\* for a process whose session holds nothing uncommitted).
C12_OnlyQuitEndsLoop ==
    (last.cmd \in LoopCommands /\ session_new = NoNew) => screen = "customer"

(* ======================= an amount of 0 ================================= *)
\* C13: debit(0) and credit(0) on an account of either polarity and any
\* balance succeed, leave the account as it was, and return a Transaction
\* of the call's kind whose amount is 0.
C13_ZeroAmountPermitted ==
    [][(acct # None /\ IsLedgerCall(call') /\ call'.amt = 0) =>
           /\ exc' = NoExc
           /\ acct' = acct
           /\ ret' # None
           /\ ret'.class = "Transaction"
           /\ ret'.amount = 0
           /\ ret'.transaction_type = (IF call'.op = "debit" THEN "DEBIT" ELSE "CREDIT")
           /\ ret'.account_id = acct.account_id]_vars

\* credit(0) has returned its Transaction on an asset account whose
\* balance is 0, the case where any other amount would overdraw
C13_Witness ==
    /\ acct # None
    /\ acct.liability_fg = 0
    /\ acct.balance = 0
    /\ call = [op |-> "credit", amt |-> 0]
    /\ exc = NoExc
    /\ ret # None
    /\ ret.amount = 0

(* ======================= what a ledger call leaves alone ================ *)
\* two Account values that agree on everything but, possibly, the balance
SameButBalance(a, b) ==
    /\ a.class = "Account" /\ b.class = "Account"
    /\ a.account_id = b.account_id
    /\ a.indvdl_id = b.indvdl_id
    /\ a.account_type = b.account_type
    /\ a.liability_fg = b.liability_fg
    /\ a.interest_rate = b.interest_rate

\* Checking and Savings are assets, Credit Card is the liability
KindMatchesPolarity(a) ==
    /\ a.account_type \in {"Checking", "Savings", "Credit Card"}
    /\ a.liability_fg = (IF a.account_type = "Credit Card" THEN 1 ELSE 0)

\* every Account there is: the persisted rows, the ones the session has
\* loaded, and the ones added to the session and not yet committed
EveryAccount == accounts \cup LoadedAccounts(context) \cup session_new.accounts

====
